---------------------------- MODULE Spec2Model ----------------------------
(***************************************************************************)
(* Model of app.py: the process-wide cached table (_df_cache), its lazy    *)
(* load in get_dataframe(), and the per-request computation of             *)
(* load_issue_data() (filtering, cleaned labels, facet lists, the          *)
(* Action -> Phase -> Issue pivot and the detail map).                     *)
(*                                                                         *)
(* Text is a sequence of one-character strings, so that strip, split,      *)
(* concatenation and lexicographic comparison are computed character by    *)
(* character.  A missing cell of the loaded table is NaN; after the null   *)
(* normalisation of load_issue_data it is None.  Both are one-element      *)
(* sequences holding a token that is no character.                         *)
(***************************************************************************)
EXTENDS Integers, Sequences, FiniteSets, TLC

VARIABLES files, _df_cache, loads, pc, args, file_path, df, out

vars == <<files, _df_cache, loads, pc, args, file_path, df, out>>

(***************************************************************************)
(* Bounds of the model.                                                    *)
(***************************************************************************)
MaxRows == 3
MaxThreads == 2

(***************************************************************************)
(* Text.                                                                   *)
(***************************************************************************)
NaN == <<"<NaN>">>
None == <<"<None>">>

Ord(c) ==
    CASE c = " " -> 32
      [] c = "-" -> 45
      [] c = "1" -> 49
      [] c = "2" -> 50
      [] c = "3" -> 51
      [] c = "4" -> 52
      [] c = "5" -> 53
      [] c = "6" -> 54
      [] c = "7" -> 55
      [] c = "8" -> 56
      [] c = ":" -> 58
      [] c = "A" -> 65
      [] c = "B" -> 66
      [] c = "C" -> 67
      [] c = "D" -> 68
      [] c = "F" -> 70
      [] c = "I" -> 73
      [] c = "J" -> 74
      [] c = "L" -> 76
      [] c = "N" -> 78
      [] c = "O" -> 79
      [] c = "P" -> 80
      [] c = "S" -> 83
      [] c = "T" -> 84
      [] c = "U" -> 85
      [] c = "a" -> 97
      [] c = "c" -> 99
      [] c = "e" -> 101
      [] c = "f" -> 102
      [] c = "g" -> 103
      [] c = "h" -> 104
      [] c = "i" -> 105
      [] c = "m" -> 109
      [] c = "n" -> 110
      [] c = "o" -> 111
      [] c = "p" -> 112
      [] c = "r" -> 114
      [] c = "s" -> 115
      [] c = "t" -> 116
      [] c = "u" -> 117
      [] c = "v" -> 118
      [] c = "x" -> 120
      [] c = "y" -> 121
      [] c = "|" -> 124

\* Python's < on str: by code point, a proper prefix is smaller.
RECURSIVE StrLess(_, _)
StrLess(a, b) ==
    IF b = <<>> THEN FALSE
    ELSE IF a = <<>> THEN TRUE
    ELSE IF a[1] = b[1] THEN StrLess(Tail(a), Tail(b))
    ELSE Ord(a[1]) < Ord(b[1])

\* pd.isna / the complement of pd.notnull
isna(x) == x = NaN \/ x = None

\* str(x) and the {x} of an f-string: a null prints as its name.
str(x) ==
    IF x = None THEN <<"N", "o", "n", "e">>
    ELSE IF x = NaN THEN <<"n", "a", "n">>
    ELSE x

\* str.strip(): whitespace removed at both ends.
RECURSIVE lstrip(_)
lstrip(s) == IF s # <<>> /\ s[1] = " " THEN lstrip(Tail(s)) ELSE s

RECURSIVE rstrip(_)
rstrip(s) ==
    IF s # <<>> /\ s[Len(s)] = " " THEN rstrip(SubSeq(s, 1, Len(s) - 1)) ELSE s

strip(s) == rstrip(lstrip(s))

\* str.split(' ', 1): at most one split, at the first space.
split_1(s) ==
    IF \E i \in 1..Len(s) : s[i] = " "
    THEN LET i == CHOOSE j \in 1..Len(s) :
                      s[j] = " " /\ \A k \in 1..(j - 1) : s[k] # " "
         IN  <<SubSeq(s, 1, i - 1), SubSeq(s, i + 1, Len(s))>>
    ELSE <<s>>

clean_issue_name(issue) ==
    IF isna(issue) THEN issue
    ELSE LET parts == split_1(str(issue))
         IN  IF Len(parts) > 1 THEN parts[2] ELSE parts[1]

clean_action_name(action) ==
    IF isna(action) \/ strip(str(action)) = <<>> THEN
        <<"N", "o", " ", "A", "c", "t", "i", "o", "n">>
    ELSE strip(str(action))

phase_order ==
    << <<"C", "r", "o", "s", "s", "-", "c", "u", "t", "t", "i", "n", "g">>,
       <<"P", "h", "a", "s", "e", " ", "1", ":", " ", "B", "e", "f", "o", "r",
         "e", " ", "P", "a", "y", "m", "e", "n", "t">>,
       <<"P", "h", "a", "s", "e", " ", "2", ":", " ", "D", "u", "r", "i", "n",
         "g", " ", "P", "a", "y", "m", "e", "n", "t">>,
       <<"P", "h", "a", "s", "e", " ", "3", ":", " ", "A", "f", "t", "e", "r",
         " ", "P", "a", "y", "m", "e", "n", "t">> >>

(***************************************************************************)
(* Lists, as Python and pandas compute them.                               *)
(***************************************************************************)
Contains(seq, x) == \E i \in 1..Len(seq) : seq[i] = x

\* Series.unique(): the distinct values in order of first appearance.
RECURSIVE unique(_)
unique(seq) ==
    IF seq = <<>> THEN <<>>
    ELSE LET init == unique(SubSeq(seq, 1, Len(seq) - 1))
             x == seq[Len(seq)]
         IN  IF Contains(init, x) THEN init ELSE Append(init, x)

\* Series.dropna()
dropna(seq) == SelectSeq(seq, LAMBDA x : ~isna(x))

\* sorted() of a list of str: ascending, stable (insertion into a sorted prefix).
RECURSIVE sorted(_)
sorted(seq) ==
    IF seq = <<>> THEN <<>>
    ELSE LET init == sorted(SubSeq(seq, 1, Len(seq) - 1))
             x == seq[Len(seq)]
             n == Cardinality({i \in 1..Len(init) : ~StrLess(x, init[i])})
         IN  SubSeq(init, 1, n) \o <<x>> \o SubSeq(init, n + 1, Len(init))

\* list.remove(x) guarded by `x in list`: the first occurrence goes.
remove_if_present(seq, x) ==
    IF Contains(seq, x)
    THEN LET i == CHOOSE j \in 1..Len(seq) :
                      seq[j] = x /\ \A k \in 1..(j - 1) : seq[k] # x
         IN  SubSeq(seq, 1, i - 1) \o SubSeq(seq, i + 1, Len(seq))
    ELSE seq

Column(frame, col) == [i \in 1..Len(frame) |-> frame[i][col]]

(***************************************************************************)
(* A DataFrame is the sequence of its rows; a row is a record of cells.    *)
(* A Python dict is the sequence of its items [k, v] in insertion order.   *)
(* An optional list argument is [given, items]: given is FALSE for None.   *)
(***************************************************************************)
NoArg == [given |-> FALSE, items |-> <<>>]
List(xs) == [given |-> TRUE, items |-> xs]

\* Mutant: the emptiness test is lost, so an empty list filters every row out.
Selected_any_list(sel) == sel.given

\* `if selected and len(selected) > 0`
Selected(sel) == sel.given /\ sel.items # <<>> /\ Len(sel.items) > 0

\* df.where(pd.notnull(df), None)
where_notnull(frame) ==
    [i \in 1..Len(frame) |->
        [c \in DOMAIN frame[i] |->
            IF isna(frame[i][c]) THEN None ELSE frame[i][c]]]

\* df[df[col].isin(selected)]
isin_filter(frame, col, sel) ==
    SelectSeq(frame, LAMBDA r : Contains(sel.items, r[col]))

filter_users(frame, selected_users) ==
    IF Selected(selected_users)
    THEN isin_filter(frame, "User", selected_users) ELSE frame

filter_campaign_types(frame, selected_campaign_types) ==
    IF Selected(selected_campaign_types)
    THEN isin_filter(frame, "Type", selected_campaign_types) ELSE frame

filter_segments(frame, selected_segments) ==
    IF Selected(selected_segments)
    THEN isin_filter(frame, "User Segment", selected_segments) ELSE frame

\* df['Issue_Clean'] = ... ; df['Action_Clean'] = ...
add_clean_columns(frame) ==
    [i \in 1..Len(frame) |->
        frame[i] @@ [Issue_Clean |-> clean_issue_name(frame[i].Issue),
                     Action_Clean |-> clean_action_name(frame[i].action_1)]]

\* Mutant: the values are listed in order of first appearance, not sorted.
facet_values_unsorted(frame, col, name) ==
    remove_if_present(unique(dropna(Column(frame, col))), name)

\* sorted(df[col].dropna().unique().tolist()), then the column's own name removed
facet_values(frame, col, name) ==
    remove_if_present(sorted(unique(dropna(Column(frame, col)))), name)

all_actions_of(frame) == sorted(unique(Column(frame, "Action_Clean")))

\* Series.nunique(): distinct values, nulls not counted.
nunique(seq) == Len(unique(dropna(seq)))

\* The group keys of groupby(['Issue', 'Issue_Clean']): rows with a null key
\* are dropped, the keys come out sorted (sort=True), Issue first.
KeyLess(p, q) ==
    StrLess(p[1], q[1]) \/ (p[1] = q[1] /\ StrLess(p[2], q[2]))

RECURSIVE sorted_keys(_)
sorted_keys(seq) ==
    IF seq = <<>> THEN <<>>
    ELSE LET init == sorted_keys(SubSeq(seq, 1, Len(seq) - 1))
             x == seq[Len(seq)]
             n == Cardinality({i \in 1..Len(init) : ~KeyLess(x, init[i])})
         IN  SubSeq(init, 1, n) \o <<x>> \o SubSeq(init, n + 1, Len(init))

groupby_nunique(phase_df) ==
    LET kept == SelectSeq(phase_df,
                    LAMBDA r : ~isna(r.Issue) /\ ~isna(r.Issue_Clean))
        keys == sorted_keys(unique(
                    [i \in 1..Len(kept) |-> <<kept[i].Issue, kept[i].Issue_Clean>>]))
    IN  [g \in 1..Len(keys) |->
            [Issue |-> keys[g][1],
             Issue_Clean |-> keys[g][2],
             Finding_Count |->
                nunique(Column(SelectSeq(kept,
                    LAMBDA r : r.Issue = keys[g][1] /\ r.Issue_Clean = keys[g][2]),
                    "Finding"))]]

\* sort_values('Finding_Count', ascending=False) with the default kind
\* 'quicksort', which is not stable: rows come out by count descending, and
\* rows of equal count in an order the sort does not promise.  tie ranks the
\* incoming positions and stands for the order the sort happens to produce.
Before(recs, tie, j, i) ==
    \/ recs[j].Finding_Count > recs[i].Finding_Count
    \/ /\ recs[j].Finding_Count = recs[i].Finding_Count
       /\ tie[j] < tie[i]

\* Mutant: ascending=False is lost.
sort_values_asc(recs, tie) ==
    [p \in 1..Len(recs) |->
        recs[CHOOSE i \in 1..Len(recs) :
                Cardinality({j \in 1..Len(recs) : Before(recs, tie, j, i)})
                    = Len(recs) - p]]

sort_values_desc(recs, tie) ==
    [p \in 1..Len(recs) |->
        recs[CHOOSE i \in 1..Len(recs) :
                Cardinality({j \in 1..Len(recs) : Before(recs, tie, j, i)}) = p - 1]]

\* lines 96-108: one phase of one action
phase_entry(action_df, phase, tie) ==
    LET phase_df == SelectSeq(action_df, LAMBDA r : r.Phase = phase)
    IN  IF phase_df # <<>>
        THEN sort_values_desc(groupby_nunique(phase_df), tie)
        ELSE <<>>

\* Mutant: a phase without rows gets no key.
build_pivot_data_skip_empty(frame, all_actions, tie) ==
    [a \in 1..Len(all_actions) |->
        [k |-> all_actions[a],
         v |-> LET action_df ==
                     SelectSeq(frame, LAMBDA r : r.Action_Clean = all_actions[a])
               IN  SelectSeq(
                       [p \in 1..Len(phase_order) |->
                           [k |-> phase_order[p],
                            v |-> phase_entry(action_df, phase_order[p], tie)]],
                       LAMBDA item : item.v # <<>>)]]

\* lines 90-108
build_pivot_data(frame, all_actions, tie) ==
    [a \in 1..Len(all_actions) |->
        [k |-> all_actions[a],
         v |-> LET action_df ==
                     SelectSeq(frame, LAMBDA r : r.Action_Clean = all_actions[a])
               IN  [p \in 1..Len(phase_order) |->
                       [k |-> phase_order[p],
                        v |-> phase_entry(action_df, phase_order[p], tie)]]]]

\* row.get(col, default): the default is used only when the row has no such
\* column; a cell that is present and null is returned as it is.
row_get(row, col, default) == IF col \in DOMAIN row THEN row[col] ELSE default

detail_key(row) ==
    str(row_get(row, "action_1", <<"N", "o", " ", "A", "c", "t", "i", "o", "n">>))
        \o <<"|", "|", "|">> \o str(row_get(row, "Issue", <<>>))

detail_entry(row) ==
    [finding |-> row_get(row, "Finding", <<>>),
     phase |-> row_get(row, "Phase", <<>>),
     user |-> row_get(row, "User", <<>>),
     issue_explanation |-> row_get(row, "Issue_Explanation", <<>>),
     action_explanation |-> row_get(row, "action_1_explanation", <<>>),
     action_confidence |-> row_get(row, "action_1_conf", <<>>),
     issue_confidence |-> row_get(row, "Confidence_Score", <<>>),
     campaign_type |-> row_get(row, "Type", <<>>),
     user_segment |-> row_get(row, "User Segment", <<>>),
     reference |-> row_get(row, "Reference", <<>>)]

HasKey(dict, key) == \E i \in 1..Len(dict) : dict[i].k = key

Lookup(dict, key) == dict[CHOOSE i \in 1..Len(dict) : dict[i].k = key].v

\* Mutant: the bucket is replaced by the new entry instead of extended.
detail_append_overwrite(detail_map, row) ==
    LET key == detail_key(row)
        with_key == IF HasKey(detail_map, key) THEN detail_map
                    ELSE Append(detail_map, [k |-> key, v |-> <<>>])
    IN  [i \in 1..Len(with_key) |->
            IF with_key[i].k = key
            THEN [k |-> key, v |-> <<detail_entry(row)>>]
            ELSE with_key[i]]

\* lines 116-129: one turn of the loop over df.iterrows()
detail_append(detail_map, row) ==
    LET key == detail_key(row)
        with_key == IF HasKey(detail_map, key) THEN detail_map
                    ELSE Append(detail_map, [k |-> key, v |-> <<>>])
    IN  [i \in 1..Len(with_key) |->
            IF with_key[i].k = key
            THEN [k |-> key, v |-> Append(with_key[i].v, detail_entry(row))]
            ELSE with_key[i]]

RECURSIVE build_detail_map(_)
build_detail_map(frame) ==
    IF frame = <<>> THEN <<>>
    ELSE detail_append(build_detail_map(SubSeq(frame, 1, Len(frame) - 1)),
                       frame[Len(frame)])

\* lines 32-64: the per-request copy, filtered and cleaned
filtered_frame(table, selected_users, selected_campaign_types, selected_segments) ==
    add_clean_columns(
        filter_segments(
            filter_campaign_types(
                filter_users(where_notnull(table), selected_users),
                selected_campaign_types),
            selected_segments))

load_issue_data(table, selected_users, selected_campaign_types, selected_segments, tie) ==
    LET frame == filtered_frame(table, selected_users, selected_campaign_types,
                                selected_segments)
        all_actions == all_actions_of(frame)
    IN  [pivot_data |-> build_pivot_data(frame, all_actions, tie),
         phase_order |-> phase_order,
         all_actions |-> all_actions,
         all_users |-> facet_values(frame, "User", <<"U", "s", "e", "r">>),
         all_campaign_types |-> facet_values(frame, "Type", <<"T", "y", "p", "e">>),
         all_segments |->
            facet_values(frame, "User Segment",
                <<"U", "s", "e", "r", " ", "S", "e", "g", "m", "e", "n", "t">>),
         detail_map |-> build_detail_map(frame)]

(***************************************************************************)
(* The tables a source file can hold.  A row has the columns the code      *)
(* reads and groups by, and Reference; the other pass-through columns are  *)
(* absent, so row.get() returns its default for them.                      *)
(***************************************************************************)
Row(user, type, segment, issue, finding, phase, action_1, reference) ==
    [c \in {"User", "Type", "User Segment", "Issue", "Finding", "Phase",
            "action_1", "Reference"} |->
        CASE c = "User" -> user
          [] c = "Type" -> type
          [] c = "User Segment" -> segment
          [] c = "Issue" -> issue
          [] c = "Finding" -> finding
          [] c = "Phase" -> phase
          [] c = "action_1" -> action_1
          [] c = "Reference" -> reference]

UserSegment == <<"U", "s", "e", "r", " ", "S", "e", "g", "m", "e", "n", "t">>
Other == <<"O", "t", "h", "e", "r">>

Pool ==
    << Row(<<"u">>, <<"t">>, <<"s">>, <<"I", " ", "L">>, <<"f">>,
           phase_order[2], <<"F">>, <<"1">>),
       Row(<<"U", "s", "e", "r">>, <<"t">>, <<"s">>, <<"I", " ", "L">>, <<"g">>,
           phase_order[2], <<"F">>, <<"2">>),
       Row(<<"u">>, <<"t">>, <<"s">>, <<"J">>, <<"f">>,
           phase_order[2], <<"F">>, <<"3">>),
       Row(NaN, NaN, NaN, <<"J">>, <<"f">>,
           phase_order[1], NaN, <<"4">>),
       Row(<<"a">>, <<"t">>, <<"s">>, <<"I", " ", "L">>, <<"f">>,
           phase_order[2], <<" ", "F">>, <<"5">>),
       Row(<<"u">>, <<"T", "y", "p", "e">>, <<"s">>, NaN, NaN,
           phase_order[1], <<" ">>, <<"6">>),
       Row(<<"u">>, <<"t">>, UserSegment, <<"J">>, <<"g">>,
           phase_order[2], <<"F">>, <<"7">>),
       Row(<<"u">>, <<"t">>, <<"s">>, <<"I", " ", "L">>, <<"f">>,
           Other, <<"F">>, <<"8">>) >>

PoolRows == {Pool[i] : i \in 1..Len(Pool)}

Tables == UNION {[1..n -> PoolRows] : n \in 0..MaxRows}

\* What raw.xlsx holds when it exists, in the concurrent specification.
FileContents == {<<Pool[4]>>, <<Pool[1], Pool[2]>>}

\* The filter selections a request can carry.
UserSelections == {NoArg, List(<<>>), List(<< <<"u">> >>)}
TypeSelections == {NoArg, List(<<>>), List(<< <<"t">> >>)}
SegmentSelections == {NoArg, List(<<>>), List(<< <<"s">> >>)}

\* The selections of the requests that race in the concurrent specification.
ConcurrentSelections ==
    {[users |-> List(<< <<"u">> >>), campaign_types |-> List(<<>>),
      segments |-> NoArg]}

\* The orders an unstable sort can leave equal counts in: a ranking of the
\* groups of one phase, of which there are at most as many as issues.
IssueValues == {Pool[i]["Issue"] : i \in 1..Len(Pool)} \ {NaN}
TieOrders == Permutations(1..Cardinality(IssueValues))

(***************************************************************************)
(* The process.  files[p] is the file at candidate path p; _df_cache is    *)
(* the module global; loads counts the calls of pd.read_excel.  Each       *)
(* request runs in its own thread of the server: pc is the line it is at,  *)
(* args its filter selections, file_path the local of get_dataframe, df    *)
(* the local of load_issue_data (the object get_dataframe returned, then   *)
(* the filtered and cleaned copy), out what the request returned.          *)
(* A DataFrame object is [id, rows]: id is the serial number of the        *)
(* read_excel call that made it (0 for a copy), and tells one loaded       *)
(* object from another of equal content.                                   *)
(***************************************************************************)
Threads == 1..MaxThreads
candidate_paths == {1, 2}

NoFile == [exists |-> FALSE, content |-> <<>>]
File(content) == [exists |-> TRUE, content |-> content]

Unset == [none |-> TRUE, id |-> 0, rows |-> <<>>]
DataFrame(id, rows) == [none |-> FALSE, id |-> id, rows |-> rows]

NoArgs == [users |-> NoArg, campaign_types |-> NoArg, segments |-> NoArg]
NoOut == [status |-> "none", value |-> <<>>]
Raised == [status |-> "FileNotFoundError", value |-> <<>>]
Returned(value) == [status |-> "ok", value |-> value]

TypeOK ==
    /\ \A p \in candidate_paths :
          files[p].exists \in BOOLEAN /\ Len(files[p].content) <= MaxRows
    /\ _df_cache.none \in BOOLEAN
    /\ loads \in Nat
    /\ pc \in [Threads -> {"idle", "line12", "line20", "line22", "line28",
                           "line32", "responded", "failed"}]
    /\ DOMAIN args = Threads
    /\ DOMAIN df = Threads
    /\ DOMAIN out = Threads

Init ==
    /\ files = [p \in candidate_paths |-> NoFile]
    /\ _df_cache = Unset
    /\ loads = 0
    /\ pc = [t \in Threads |-> "idle"]
    /\ args = [t \in Threads |-> NoArgs]
    /\ file_path = [t \in Threads |-> 0]
    /\ df = [t \in Threads |-> Unset]
    /\ out = [t \in Threads |-> NoOut]

\* The environment puts raw.xlsx at a candidate path.
CreateFile(p, content) ==
    /\ ~files[p].exists
    /\ files' = [files EXCEPT ![p] = File(content)]
    /\ UNCHANGED <<_df_cache, loads, pc, args, file_path, df, out>>

\* GET / : load_issue_data() with no selection (lines 141-151)
index(t) ==
    /\ pc[t] = "idle"
    /\ args' = [args EXCEPT ![t] = NoArgs]
    /\ pc' = [pc EXCEPT ![t] = "line12"]
    /\ UNCHANGED <<files, _df_cache, loads, file_path, df, out>>

\* POST /api/filter : the selections of the request body (lines 161-176)
filter_data(t, selected_users, selected_campaign_types, selected_segments) ==
    /\ pc[t] = "idle"
    /\ args' = [args EXCEPT ![t] = [users |-> selected_users,
                                    campaign_types |-> selected_campaign_types,
                                    segments |-> selected_segments]]
    /\ pc' = [pc EXCEPT ![t] = "line12"]
    /\ UNCHANGED <<files, _df_cache, loads, file_path, df, out>>

\* get_dataframe, line 12: `if _df_cache is None` is true
CacheMiss(t) ==
    /\ pc[t] = "line12"
    /\ _df_cache.none
    /\ pc' = [pc EXCEPT ![t] = "line20"]
    /\ UNCHANGED <<files, _df_cache, loads, args, file_path, df, out>>

\* get_dataframe, line 12: the cache is set
CacheHit(t) ==
    /\ pc[t] = "line12"
    /\ ~_df_cache.none
    /\ pc' = [pc EXCEPT ![t] = "line28"]
    /\ UNCHANGED <<files, _df_cache, loads, args, file_path, df, out>>

\* lines 20-21: the first candidate path that exists
PathFound(t) ==
    /\ pc[t] = "line20"
    /\ \E p \in candidate_paths :
        /\ files[p].exists
        /\ \A q \in candidate_paths : q < p => ~files[q].exists
        /\ file_path' = [file_path EXCEPT ![t] = p]
    /\ pc' = [pc EXCEPT ![t] = "line22"]
    /\ UNCHANGED <<files, _df_cache, loads, args, df, out>>

\* Mutant: the failed search is remembered as an empty table.
PathNotFound_caches_empty(t) ==
    /\ pc[t] = "line20"
    /\ \A p \in candidate_paths : ~files[p].exists
    /\ _df_cache' = DataFrame(0, <<>>)
    /\ pc' = [pc EXCEPT ![t] = "failed"]
    /\ out' = [out EXCEPT ![t] = Raised]
    /\ UNCHANGED <<files, loads, args, file_path, df>>

\* lines 24-27: no candidate exists; FileNotFoundError leaves get_dataframe,
\* load_issue_data and the handler, and the request fails.
PathNotFound(t) ==
    /\ pc[t] = "line20"
    /\ \A p \in candidate_paths : ~files[p].exists
    /\ pc' = [pc EXCEPT ![t] = "failed"]
    /\ out' = [out EXCEPT ![t] = Raised]
    /\ UNCHANGED <<files, _df_cache, loads, args, file_path, df>>

\* line 22: _df_cache = pd.read_excel(file_path)
ReadExcel(t) ==
    /\ pc[t] = "line22"
    /\ loads' = loads + 1
    /\ _df_cache' = DataFrame(loads + 1, files[file_path[t]].content)
    /\ pc' = [pc EXCEPT ![t] = "line28"]
    /\ UNCHANGED <<files, args, file_path, df, out>>

\* line 28: return _df_cache
ReturnCache(t) ==
    /\ pc[t] = "line28"
    /\ df' = [df EXCEPT ![t] = _df_cache]
    /\ pc' = [pc EXCEPT ![t] = "line32"]
    /\ UNCHANGED <<files, _df_cache, loads, args, file_path, out>>

\* lines 32-139 and the handler's return: everything is computed on the
\* copy made at line 32, the cached object is only read.
Compute(t) ==
    /\ pc[t] = "line32"
    /\ df' = [df EXCEPT ![t] =
                 DataFrame(0, filtered_frame(df[t].rows, args[t].users,
                     args[t].campaign_types, args[t].segments))]
    /\ \E tie \in TieOrders :
        out' = [out EXCEPT ![t] =
                   Returned(load_issue_data(df[t].rows, args[t].users,
                       args[t].campaign_types, args[t].segments, tie))]
    /\ pc' = [pc EXCEPT ![t] = "responded"]
    /\ UNCHANGED <<files, _df_cache, loads, args, file_path>>

\* The response (or the error) has gone out; the thread takes a new request.
Finish(t) ==
    /\ pc[t] \in {"responded", "failed"}
    /\ pc' = [pc EXCEPT ![t] = "idle"]
    /\ args' = [args EXCEPT ![t] = NoArgs]
    /\ file_path' = [file_path EXCEPT ![t] = 0]
    /\ df' = [df EXCEPT ![t] = Unset]
    /\ out' = [out EXCEPT ![t] = NoOut]
    /\ UNCHANGED <<files, _df_cache, loads>>

Next ==
    \/ \E p \in candidate_paths, content \in FileContents : CreateFile(p, content)
    \/ \E t \in Threads : index(t)
    \/ \E t \in Threads, sel \in ConcurrentSelections :
          filter_data(t, sel.users, sel.campaign_types, sel.segments)
    \/ \E t \in Threads : CacheMiss(t)
    \/ \E t \in Threads : CacheHit(t)
    \/ \E t \in Threads : PathFound(t)
    \/ \E t \in Threads : PathNotFound(t)
    \/ \E t \in Threads : ReadExcel(t)
    \/ \E t \in Threads : ReturnCache(t)
    \/ \E t \in Threads : Compute(t)
    \/ \E t \in Threads : Finish(t)

Spec == Init /\ [][Next]_vars

(***************************************************************************)
(* The same handlers on a warm cache, one request at a time: the table is  *)
(* any table of at most MaxRows rows, already loaded, and a request runs   *)
(* from its arrival to its response in one step.                           *)
(***************************************************************************)
WarmInit ==
    /\ \E table \in Tables :
        /\ files = [p \in candidate_paths |->
                       IF p = 1 THEN File(table) ELSE NoFile]
        /\ _df_cache = DataFrame(1, table)
    /\ loads = 1
    /\ pc = [t \in Threads |-> "idle"]
    /\ args = [t \in Threads |-> NoArgs]
    /\ file_path = [t \in Threads |-> 0]
    /\ df = [t \in Threads |-> Unset]
    /\ out = [t \in Threads |-> NoOut]

\* load_issue_data on a set cache: get_dataframe returns _df_cache (lines
\* 12, 28), then lines 32-139.
Serve(t, selections) ==
    /\ pc[t] = "idle"
    /\ ~_df_cache.none
    /\ args' = [args EXCEPT ![t] = selections]
    /\ df' = [df EXCEPT ![t] =
                 DataFrame(0, filtered_frame(_df_cache.rows, selections.users,
                     selections.campaign_types, selections.segments))]
    /\ \E tie \in TieOrders :
        out' = [out EXCEPT ![t] =
                   Returned(load_issue_data(_df_cache.rows, selections.users,
                       selections.campaign_types, selections.segments, tie))]
    /\ pc' = [pc EXCEPT ![t] = "responded"]
    /\ UNCHANGED <<files, _df_cache, loads, file_path>>

ServeIndex(t) == Serve(t, NoArgs)

ServeFilterData(t, selected_users, selected_campaign_types, selected_segments) ==
    Serve(t, [users |-> selected_users,
              campaign_types |-> selected_campaign_types,
              segments |-> selected_segments])

WarmNext ==
    \/ ServeIndex(1)
    \/ \E u \in UserSelections, c \in TypeSelections, s \in SegmentSelections :
          ServeFilterData(1, u, c, s)
    \/ Finish(1)

WarmSpec == WarmInit /\ [][WarmNext]_vars

(***************************************************************************)
(* What the claims speak of.  A request has responded when its handler     *)
(* returned the tuple of load_issue_data; its filtered records are the     *)
(* rows of its local df.  Rows of the pool differ in Reference, which      *)
(* tells which row a detail entry was made from.                           *)
(***************************************************************************)
Responded(t) == pc[t] = "responded" /\ out[t].status = "ok"
Frame(t) == df[t].rows
Pivot(t) == out[t].value.pivot_data
Detail(t) == out[t].value.detail_map

NoActionLabel == <<"N", "o", " ", "A", "c", "t", "i", "o", "n">>
Separator == <<"|", "|", "|">>
CanonicalPhases ==
    << <<"C", "r", "o", "s", "s", "-", "c", "u", "t", "t", "i", "n", "g">>,
       <<"P", "h", "a", "s", "e", " ", "1", ":", " ", "B", "e", "f", "o", "r",
         "e", " ", "P", "a", "y", "m", "e", "n", "t">>,
       <<"P", "h", "a", "s", "e", " ", "2", ":", " ", "D", "u", "r", "i", "n",
         "g", " ", "P", "a", "y", "m", "e", "n", "t">>,
       <<"P", "h", "a", "s", "e", " ", "3", ":", " ", "A", "f", "t", "e", "r",
         " ", "P", "a", "y", "m", "e", "n", "t">> >>
IsCanonical(phase) == \E p \in 1..Len(CanonicalPhases) : CanonicalPhases[p] = phase

Elems(seq) == {seq[i] : i \in 1..Len(seq)}

\* C1: concurrent first calls of get_dataframe() load the table at most once,
\* and every caller gets back the one cached table.
C1_LoadedAtMostOnce ==
    /\ loads <= 1
    /\ \A t \in Threads : pc[t] = "line32" => df[t] = _df_cache

\* C2: every pivot entry {Issue: I, Finding_Count: n} under pivot_data[A][P] has
\* a detail bucket at key A + "|||" + I, and n is the number of distinct
\* findings among that bucket's entries whose phase is P.
C2_PivotMatchesDetail ==
    \A t \in Threads : Responded(t) =>
        \A a \in 1..Len(Pivot(t)) :
            \A p \in 1..Len(Pivot(t)[a].v) :
                \A e \in 1..Len(Pivot(t)[a].v[p].v) :
                    LET entry == Pivot(t)[a].v[p].v[e]
                        key == Pivot(t)[a].k \o Separator \o entry.Issue
                    IN  /\ HasKey(Detail(t), key)
                        /\ entry.Finding_Count =
                             Cardinality(
                                {d.finding : d \in
                                    {x \in Elems(Lookup(Detail(t), key)) :
                                        x.phase = Pivot(t)[a].v[p].k}}
                                \ {None, NaN})

\* C3: a record whose action_1 is null is grouped under "No Action" in the
\* pivot, and its detail entry is stored under the key "No Action|||" + Issue.
C3_NullActionKey ==
    \A t \in Threads : Responded(t) =>
        \A i \in 1..Len(Frame(t)) :
            (isna(Frame(t)[i]["action_1"]) /\ ~isna(Frame(t)[i]["Issue"])) =>
                LET key == NoActionLabel \o Separator \o Frame(t)[i]["Issue"]
                IN  /\ HasKey(Pivot(t), NoActionLabel)
                    /\ HasKey(Detail(t), key)
                    /\ \E d \in Elems(Lookup(Detail(t), key)) :
                          d.reference = Frame(t)[i]["Reference"]

\* A detail entry carries the cells of the row it was made from.
EntryOfRow(d, r) ==
    /\ d.finding = r["Finding"]
    /\ d.phase = r["Phase"]
    /\ d.user = r["User"]
    /\ d.campaign_type = r["Type"]
    /\ d.user_segment = r["User Segment"]
    /\ d.reference = r["Reference"]

BucketRefs(bucket) == {bucket[n].reference : n \in 1..Len(bucket)}

\* C4: the detail map holds exactly one entry per filtered record: every row
\* is in exactly one bucket, the entries number as many as the rows, and each
\* bucket lists its rows in row order, whatever their Phase.
C4_DetailBijection ==
    \A t \in Threads : Responded(t) =>
        LET dm == Detail(t)
            fr == Frame(t)
        IN  /\ \A i, j \in 1..Len(dm) :
                  i # j => /\ dm[i].k # dm[j].k
                           /\ BucketRefs(dm[i].v) \cap BucketRefs(dm[j].v) = {}
            /\ \A i \in 1..Len(fr) :
                  \E j \in 1..Len(dm) : fr[i]["Reference"] \in BucketRefs(dm[j].v)
            /\ \A j \in 1..Len(dm) :
                  LET rows == SelectSeq(fr,
                                 LAMBDA r : r["Reference"] \in BucketRefs(dm[j].v))
                  IN  /\ Len(dm[j].v) = Len(rows)
                      /\ \A n \in 1..Len(rows) : EntryOfRow(dm[j].v[n], rows[n])
            /\ Cardinality(UNION {{<<j, n>> : n \in 1..Len(dm[j].v)} :
                                     j \in 1..Len(dm)}) = Len(fr)

C4_Witness ==
    \E t \in Threads :
        /\ Responded(t)
        /\ \E j \in 1..Len(Detail(t)) : Len(Detail(t)[j].v) >= 2
        /\ Len(Detail(t)) >= 2
        /\ \E i \in 1..Len(Frame(t)) : ~IsCanonical(Frame(t)[i]["Phase"])

NonIncreasing(list) ==
    \A i \in 1..(Len(list) - 1) :
        list[i].Finding_Count >= list[i + 1].Finding_Count

\* The rows of one action and phase of the filtered records.
CellRows(t, action, phase) ==
    SelectSeq(Frame(t), LAMBDA r : r["Action_Clean"] = action /\ r["Phase"] = phase)

FirstAppearance(rows, issue) ==
    CHOOSE i \in 1..Len(rows) :
        rows[i]["Issue"] = issue /\ \A k \in 1..(i - 1) : rows[k]["Issue"] # issue

\* C5 (as claimed): each pivot list is sorted by Finding_Count descending, and
\* entries of equal count are in the order in which their group first
\* appeared in the filtered rows.
C5_TiesInFirstAppearanceOrder ==
    \A t \in Threads : Responded(t) =>
        \A a \in 1..Len(Pivot(t)) :
            \A p \in 1..Len(Pivot(t)[a].v) :
                LET list == Pivot(t)[a].v[p].v
                    rows == CellRows(t, Pivot(t)[a].k, Pivot(t)[a].v[p].k)
                IN  /\ NonIncreasing(list)
                    /\ \A i \in 1..(Len(list) - 1) :
                          list[i].Finding_Count = list[i + 1].Finding_Count =>
                              FirstAppearance(rows, list[i].Issue)
                                  < FirstAppearance(rows, list[i + 1].Issue)

\* C5 (amended): each pivot list is sorted by Finding_Count descending and
\* lists every (Issue, Issue_Clean) group of its action and phase exactly
\* once; the order of entries of equal count is not fixed.
C5_SortedByCountDescending ==
    \A t \in Threads : Responded(t) =>
        \A a \in 1..Len(Pivot(t)) :
            \A p \in 1..Len(Pivot(t)[a].v) :
                LET list == Pivot(t)[a].v[p].v
                    rows == CellRows(t, Pivot(t)[a].k, Pivot(t)[a].v[p].k)
                IN  /\ NonIncreasing(list)
                    /\ \A i, j \in 1..Len(list) :
                          i # j => list[i].Issue # list[j].Issue
                    /\ {<<list[i].Issue, list[i].Issue_Clean>> : i \in 1..Len(list)}
                         = {<<rows[i]["Issue"], rows[i]["Issue_Clean"]>> :
                               i \in {k \in 1..Len(rows) : ~isna(rows[k]["Issue"])}}

C5_Witness ==
    \E t \in Threads :
        /\ Responded(t)
        /\ \E a \in 1..Len(Pivot(t)) :
              \E p \in 1..Len(Pivot(t)[a].v) :
                  LET list == Pivot(t)[a].v[p].v
                      rows == CellRows(t, Pivot(t)[a].k, Pivot(t)[a].v[p].k)
                  IN  /\ Len(list) = 2
                      /\ list[1].Finding_Count > list[2].Finding_Count
                      /\ FirstAppearance(rows, list[2].Issue)
                            < FirstAppearance(rows, list[1].Issue)
                      /\ StrLess(list[2].Issue, list[1].Issue)

\* A facet constrains a record when its selection is a non-empty list.
Constrains(sel) == sel.given /\ Len(sel.items) >= 1

Satisfies(row, selections) ==
    /\ Constrains(selections.users) => row["User"] \in Elems(selections.users.items)
    /\ Constrains(selections.campaign_types) =>
          row["Type"] \in Elems(selections.campaign_types.items)
    /\ Constrains(selections.segments) =>
          row["User Segment"] \in Elems(selections.segments.items)

\* The selections with every empty list replaced by no selection at all.
WithoutEmpty(selections) ==
    [f \in DOMAIN selections |->
        IF Constrains(selections[f]) THEN selections[f] ELSE NoArg]

\* C6: filtering is conjunctive: the filtered records are exactly the rows of
\* the table that, for each facet with a non-empty selection, have a value in
\* that selection; an empty list gives the output of no selection.
C6_ConjunctiveFilter ==
    \A t \in Threads : Responded(t) =>
        LET kept == SelectSeq(_df_cache.rows, LAMBDA r : Satisfies(r, args[t]))
            bare == WithoutEmpty(args[t])
        IN  /\ Len(Frame(t)) = Len(kept)
            /\ \A i \in 1..Len(kept) :
                  \A c \in DOMAIN kept[i] :
                      IF isna(kept[i][c]) THEN isna(Frame(t)[i][c])
                      ELSE Frame(t)[i][c] = kept[i][c]
            /\ \E tie \in TieOrders :
                  out[t].value =
                      load_issue_data(_df_cache.rows, bare.users,
                          bare.campaign_types, bare.segments, tie)

C6_Witness ==
    \E t \in Threads :
        /\ Responded(t)
        /\ Constrains(args[t].users)
        /\ Constrains(args[t].campaign_types)
        /\ args[t].segments = List(<<>>)
        /\ Len(Frame(t)) >= 1
        /\ \E i \in 1..Len(_df_cache.rows) :
              LET r == _df_cache.rows[i]
              IN  /\ r["User"] \in Elems(args[t].users.items)
                  /\ r["Type"] \notin Elems(args[t].campaign_types.items)
        /\ \E i \in 1..Len(_df_cache.rows) :
              LET r == _df_cache.rows[i]
              IN  /\ r["User"] \notin Elems(args[t].users.items)
                  /\ r["Type"] \in Elems(args[t].campaign_types.items)

Ascending(list) == \A i \in 1..(Len(list) - 1) : StrLess(list[i], list[i + 1])

Observed(t, col) == {Frame(t)[i][col] : i \in 1..Len(Frame(t))} \ {None, NaN}

\* C7 (as claimed): all_users, all_campaign_types and all_segments are the
\* ascending lists of exactly the distinct non-null values of their columns
\* among the filtered records, a value equal to the column's name included.
C7_FacetListsAreAllValues ==
    \A t \in Threads : Responded(t) =>
        /\ Ascending(out[t].value.all_users)
        /\ Elems(out[t].value.all_users) = Observed(t, "User")
        /\ Ascending(out[t].value.all_campaign_types)
        /\ Elems(out[t].value.all_campaign_types) = Observed(t, "Type")
        /\ Ascending(out[t].value.all_segments)
        /\ Elems(out[t].value.all_segments) = Observed(t, "User Segment")

\* C7 (amended): each list is the ascending list of the distinct non-null
\* values of its column among the filtered records, except the value equal to
\* the column's own name ("User", "Type", "User Segment"), which is left out.
C7_FacetListsOmitColumnName ==
    \A t \in Threads : Responded(t) =>
        /\ Ascending(out[t].value.all_users)
        /\ Elems(out[t].value.all_users)
             = Observed(t, "User") \ {<<"U", "s", "e", "r">>}
        /\ Ascending(out[t].value.all_campaign_types)
        /\ Elems(out[t].value.all_campaign_types)
             = Observed(t, "Type") \ {<<"T", "y", "p", "e">>}
        /\ Ascending(out[t].value.all_segments)
        /\ Elems(out[t].value.all_segments)
             = Observed(t, "User Segment")
                 \ {<<"U", "s", "e", "r", " ", "S", "e", "g", "m", "e", "n", "t">>}

C7_Witness ==
    \E t \in Threads :
        /\ Responded(t)
        /\ Len(out[t].value.all_users) = 2
        /\ <<"U", "s", "e", "r">> \in Observed(t, "User")
        /\ Frame(t)[1]["User"] = out[t].value.all_users[2]

\* C8: the keys of pivot_data are exactly the distinct cleaned action labels
\* of the filtered records; under every action the phase keys are the four
\* canonical phases in canonical order, a phase without rows maps to an empty
\* list, and no record of a non-canonical Phase is listed anywhere.
C8_PivotShape ==
    \A t \in Threads : Responded(t) =>
        /\ {Pivot(t)[a].k : a \in 1..Len(Pivot(t))}
             = {Frame(t)[i]["Action_Clean"] : i \in 1..Len(Frame(t))}
        /\ \A a, b \in 1..Len(Pivot(t)) : a # b => Pivot(t)[a].k # Pivot(t)[b].k
        /\ \A a \in 1..Len(Pivot(t)) :
              /\ [p \in 1..Len(Pivot(t)[a].v) |-> Pivot(t)[a].v[p].k] = CanonicalPhases
              /\ \A p \in 1..Len(Pivot(t)[a].v) :
                    LET rows == CellRows(t, Pivot(t)[a].k, CanonicalPhases[p])
                        list == Pivot(t)[a].v[p].v
                    IN  /\ rows = <<>> => list = <<>>
                        /\ \A e \in 1..Len(list) :
                              \E i \in 1..Len(rows) : rows[i]["Issue"] = list[e].Issue

C8_Witness ==
    \E t \in Threads :
        /\ Responded(t)
        /\ Len(Pivot(t)) >= 2
        /\ \E a \in 1..Len(Pivot(t)) :
              /\ \E p \in 1..Len(Pivot(t)[a].v) : Pivot(t)[a].v[p].v # <<>>
              /\ \E p \in 1..Len(Pivot(t)[a].v) : Pivot(t)[a].v[p].v = <<>>
              /\ \E i \in 1..Len(Frame(t)) :
                    /\ Frame(t)[i]["Action_Clean"] = Pivot(t)[a].k
                    /\ ~IsCanonical(Frame(t)[i]["Phase"])

NoFileExists == \A p \in candidate_paths : ~files[p].exists

\* C9: when no source file exists at any candidate path, get_dataframe() ends
\* in FileNotFoundError and the request returns no result; the failed attempt
\* leaves _df_cache unset, the cache never holds anything but the content of
\* a file that exists, and a later call that finds the file loads it.
C9_MissingSourceFails ==
    /\ [][\A t \in Threads :
            (pc[t] = "line20" /\ pc'[t] # "line20" /\ NoFileExists) =>
                /\ pc'[t] = "failed"
                /\ out'[t] = Raised
                /\ _df_cache.none /\ _df_cache'.none
                /\ loads' = loads]_vars
    /\ [][\A t \in Threads :
            (pc[t] = "line22" /\ pc'[t] # "line22") =>
                /\ ~_df_cache'.none
                /\ _df_cache'.rows = files[file_path[t]].content
                /\ pc'[t] = "line28"]_vars
    /\ [](\A t \in Threads : pc[t] = "failed" => out[t].status = "FileNotFoundError")
    /\ [](\A t \in Threads : out[t].status = "FileNotFoundError" => out[t].value = <<>>)
    /\ [](~_df_cache.none =>
             \E p \in candidate_paths :
                 files[p].exists /\ _df_cache.rows = files[p].content)

C9_Witness ==
    \E t, u \in Threads :
        /\ pc[t] = "failed"
        /\ out[t] = Raised
        /\ Responded(u)
        /\ ~_df_cache.none
        /\ _df_cache.rows # <<>>

\* C10: after the first successful load _df_cache is constant: no request
\* reloads the table or changes its rows or columns.
C10_CacheConstantAfterLoad ==
    [][~_df_cache.none => (_df_cache' = _df_cache /\ loads' = loads)]_vars

=============================================================================
